---- MODULE Spec2Model ----
(***************************************************************************)
(* Model of src/app.py: the Streamlit "AI Topic, Script & SEO Generator". *)
(*                                                                         *)
(* A Python str is modelled as a sequence of characters, each character a *)
(* one-element TLA+ string.  The text helpers (str.split, str.strip,      *)
(* str.splitlines, str.lower, str.isalnum, " ".join) are operators that   *)
(* compute what the Python built-ins compute on those sequences.          *)
(***************************************************************************)
EXTENDS Integers, Sequences, FiniteSets, TLC

VARIABLES
    pc,          \* position of the script run (or of a helper evaluation)
    run_btn,     \* st.button("Generate")
    niche,       \* st.text_input("Enter niche")
    api_key,     \* st.text_input("Enter OpenRouter API Key")
    num_topics,  \* st.number_input("Number of topics")
    words,       \* st.number_input("Words per script")
    raw_topics,  \* text returned by the topic-list call
    topics,      \* parsed, truncated topic list
    idx,         \* number of topics the for loop has taken
    entry,       \* the dict being filled for the current topic
    output,      \* the output dict: niche, generated_at, topics
    inflight,    \* the request that has been posted and not yet answered
    issued,      \* history: every request posted, in order
    returned,    \* history: the response and the outcome of every completed call, in order
    shown,       \* what the display/download section has rendered
    arg,         \* helper evaluation: the text argument
    argn,        \* helper evaluation: the integer argument
    res          \* helper evaluation: the value returned

vars == <<pc, run_btn, niche, api_key, num_topics, words, raw_topics, topics, idx,
          entry, output, inflight, issued, returned, shown, arg, argn, res>>

runVars == <<run_btn, niche, api_key, num_topics, words, raw_topics, topics, idx,
             entry, output, inflight, issued, returned, shown>>

helperVars == <<arg, argn, res>>

(***************************************************************************)
(* Bounds of the model.                                                    *)
(***************************************************************************)
MaxLen == 5        \* longest text given to a helper
MaxTopics == 2     \* largest "Number of topics" (the widget allows 1..20)
MaxWords == 2      \* largest "Words per script" (the widget's range, scaled down)

(***************************************************************************)
(* Characters.                                                             *)
(***************************************************************************)
SP == " "
NL == "\n"
HY == "-"
DOT == "."

\* "I*" stands for U+0130 (capital I with dot above), the one character whose
\* str.lower() is two characters: "i" followed by U+0307, written "*" here.
Digits == {"0", "1", "2", "3", "4", "5", "6", "7", "8", "9"}
LowerLetters == {"a", "b", "c", "f", "i", "k", "o", "r", "s", "t", "z"}
UpperLetters == {"A", "B", "F", "I*"}

IsSpace(c) == c \in {SP, NL, "\t"}

IsDigit(c) == c \in Digits

IsAlnum(c) == c \in Digits \cup LowerLetters \cup UpperLetters

IsUpper(c) == c \in UpperLetters

LowerChar(c) ==
    CASE c = "A" -> <<"a">>
      [] c = "B" -> <<"b">>
      [] c = "F" -> <<"f">>
      [] c = "I*" -> <<"i", "*">>
      [] OTHER -> <<c>>

TextsOver(alphabet, n) == UNION {[1..k -> alphabet] : k \in 0..n}

(***************************************************************************)
(* Python string built-ins.                                                *)
(***************************************************************************)
RECURSIVE Lower(_)
Lower(s) == IF s = <<>> THEN <<>> ELSE LowerChar(Head(s)) \o Lower(Tail(s))

RECURSIVE LStripSet(_, _)
LStripSet(s, cs) ==
    IF s # <<>> /\ Head(s) \in cs THEN LStripSet(Tail(s), cs) ELSE s

RECURSIVE RStripSet(_, _)
RStripSet(s, cs) ==
    IF s # <<>> /\ s[Len(s)] \in cs THEN RStripSet(SubSeq(s, 1, Len(s) - 1), cs) ELSE s

StripSet(s, cs) == RStripSet(LStripSet(s, cs), cs)

Whitespace == {SP, NL, "\t"}

Strip(s) == StripSet(s, Whitespace)

\* str.split(): the maximal runs of non-whitespace characters, in order
RECURSIVE SplitFrom(_, _, _)
SplitFrom(s, cur, acc) ==
    IF s = <<>> THEN (IF cur = <<>> THEN acc ELSE Append(acc, cur))
    ELSE IF IsSpace(Head(s))
         THEN SplitFrom(Tail(s), <<>>, IF cur = <<>> THEN acc ELSE Append(acc, cur))
         ELSE SplitFrom(Tail(s), Append(cur, Head(s)), acc)

Split(s) == SplitFrom(s, <<>>, <<>>)

\* sep.join(parts)
RECURSIVE Join(_, _)
Join(parts, sep) ==
    IF parts = <<>> THEN <<>>
    ELSE IF Len(parts) = 1 THEN parts[1]
    ELSE parts[1] \o sep \o Join(Tail(parts), sep)

\* str.splitlines(): the text between line breaks; no empty last line
RECURSIVE LinesFrom(_, _, _)
LinesFrom(s, cur, acc) ==
    IF s = <<>> THEN (IF cur = <<>> THEN acc ELSE Append(acc, cur))
    ELSE IF Head(s) = NL
         THEN LinesFrom(Tail(s), <<>>, Append(acc, cur))
         ELSE LinesFrom(Tail(s), Append(cur, Head(s)), acc)

SplitLines(s) == LinesFrom(s, <<>>, <<>>)

\* line.split(".", 1)[-1]: the text after the first "." of the line, the line if it has none
AfterFirstDot(line) ==
    IF \E i \in 1..Len(line) : line[i] = DOT
    THEN LET first == CHOOSE i \in 1..Len(line) :
                          /\ line[i] = DOT
                          /\ \A j \in 1..(i - 1) : line[j] # DOT
         IN  SubSeq(line, first + 1, Len(line))
    ELSE line

\* words[:n] for n >= 0
Take(s, n) == SubSeq(s, 1, IF n < Len(s) THEN n ELSE Len(s))

(***************************************************************************)
(* Helpers of app.py.                                                      *)
(***************************************************************************)
\* slugify without the final strip("-")
slugify_nostrip(text) ==
    LET lowered == Lower(text)
    IN  [i \in 1..Len(lowered) |-> IF IsAlnum(lowered[i]) THEN lowered[i] ELSE HY]

slugify(text) ==
    LET lowered == Lower(text)
        mapped == [i \in 1..Len(lowered) |->
                      IF IsAlnum(lowered[i]) THEN lowered[i] ELSE HY]
    IN  StripSet(mapped, {HY})

\* approx_trim with ">=" where the code has ">"
approx_trim_ge(text, word_target) ==
    LET ws == Split(text)
    IN  IF Len(ws) >= word_target THEN Join(Take(ws, word_target), <<SP>>) ELSE text

approx_trim(text, word_target) ==
    LET ws == Split(text)
    IN  IF Len(ws) > word_target THEN Join(Take(ws, word_target), <<SP>>) ELSE text

topic_of_line(line) ==
    IF IsDigit(line[1]) THEN Strip(AfterFirstDot(line)) ELSE line

RECURSIVE MapLines(_)
MapLines(ls) ==
    IF ls = <<>> THEN <<>>
    ELSE IF Strip(Head(ls)) # <<>>
         THEN <<topic_of_line(Head(ls))>> \o MapLines(Tail(ls))
         ELSE MapLines(Tail(ls))

parse_topics(raw) == MapLines(SplitLines(raw))

\* the topic list without the slice
truncate_topics_none(ts, n) == ts

\* topics[:num_topics]
truncate_topics(ts, n) == Take(ts, n)

(***************************************************************************)
(* The completion client.                                                  *)
(***************************************************************************)
HTTP_OK == 200

\* What requests.post can bring back: a status, a body text, and whether the
\* body's JSON holds choices[0].message.content (then: its value).
Response(status, wellformed, content) ==
    [status |-> status, wellformed |-> wellformed, content |-> content]

Responses(contents) ==
    {Response(HTTP_OK, TRUE, c) : c \in contents}
        \cup {Response(500, TRUE, <<>>), Response(HTTP_OK, FALSE, <<>>)}

\* call_openrouter without the status check of line 40
call_openrouter_anystatus(resp) ==
    IF ~resp.wellformed
    THEN [ok |-> FALSE, val |-> <<"'choices'">>]
    ELSE [ok |-> TRUE, val |-> Strip(resp.content)]

\* call_openrouter after requests.post has returned resp: the text, or the exception raised
call_openrouter(resp) ==
    IF resp.status # HTTP_OK
    THEN [ok |-> FALSE,
          val |-> <<"OpenRouter API error ", ToString(resp.status), ": ">> \o resp.content]
    ELSE IF ~resp.wellformed
         THEN [ok |-> FALSE, val |-> <<"'choices'">>]
         ELSE [ok |-> TRUE, val |-> Strip(resp.content)]

ErrPrefix == <<"[", "E", "r", "r", "o", "r", ":", SP>>

\* the placeholder without its "[Error: " marker
error_text_bare(e) == e

\* f"[Error: {e}]"
error_text(e) == ErrPrefix \o e \o <<"]">>

(***************************************************************************)
(* Inputs of a run.                                                        *)
(***************************************************************************)
\* "Words per script": the two largest targets within the bound
WordTargets == {w \in 1..MaxWords : w >= MaxWords - 1}

NicheSamples == {<<>>, <<"F", SP, "a">>}
KeySamples == {<<>>, <<"k">>}
Clock == {<<"c", "t", "i">>}

DigitOf == <<"1", "2", "3", "4", "5", "6", "7", "8", "9">>
TopicNames == <<"a", "b", "c", "o", "r", "s", "t", "z", "k">>

\* the numbered list "1. a\n2. b\n..." of k lines
RECURSIVE NumberedList(_)
NumberedList(k) ==
    IF k = 0 THEN <<>>
    ELSE (IF k = 1 THEN <<>> ELSE NumberedList(k - 1) \o <<NL>>)
             \o <<DigitOf[k], DOT, SP, TopicNames[k]>>

\* texts the topic-list call may return: numbered lists of no line, of one line
\* and of MaxTopics + 1 lines, a list of two lines with a blank line between
\* them, and a single unnumbered line
RawSamples ==
    {NumberedList(k) : k \in {0, 1, MaxTopics + 1}}
        \cup {<<"1", DOT, SP, "a", NL, SP, NL, "2", DOT, "b">>, <<SP, "z", SP, "a", NL>>}

\* the text of k words "a b a b ..." separated by single spaces
RECURSIVE WordsText(_)
WordsText(k) ==
    IF k = 0 THEN <<>>
    ELSE (IF k = 1 THEN <<>> ELSE WordsText(k - 1) \o <<SP>>)
             \o <<IF k % 2 = 1 THEN "a" ELSE "b">>

\* texts the script call may return when the target is w words: one word more
\* than the target, and two words with two spaces between them
ScriptSamples(w) ==
    {<<NL>> \o WordsText(w + 1) \o <<SP>>, <<"a", SP, SP, "b">>}

SeoSamples == {<<SP, "s">>}
ThumbSamples == {<<"t", NL>>}

NoRequest == [kind |-> "none", t |-> 0]

\* a name of the script that is not bound yet
Unbound == [unbound |-> TRUE]

\* nothing rendered below the title
NotShown == [rendered |-> FALSE]

Request(kind, t) == [kind |-> kind, t |-> t]

HelperIdle == arg = <<>> /\ argn = 0 /\ res = <<>>

(***************************************************************************)
(* One run of the script (lines 87-142).                                   *)
(***************************************************************************)
Init ==
    /\ pc = "guard"
    /\ run_btn \in BOOLEAN
    /\ niche \in NicheSamples
    /\ api_key \in KeySamples
    /\ num_topics \in 1..MaxTopics
    /\ words \in WordTargets
    /\ raw_topics = <<>>
    /\ topics = <<>>
    /\ idx = 0
    /\ entry = Unbound
    /\ output = Unbound
    /\ inflight = NoRequest
    /\ issued = <<>>
    /\ returned = <<>>
    /\ shown = NotShown
    /\ HelperIdle

\* the run guard without the api_key test
Guard_nokey ==
    /\ pc = "guard"
    /\ IF run_btn /\ niche # <<>>
       THEN /\ \E now \in Clock :
                 output' = [niche |-> niche, generated_at |-> now, topics |-> <<>>]
            /\ pc' = "topics_issue"
       ELSE /\ pc' = "end"
            /\ UNCHANGED output
    /\ UNCHANGED <<run_btn, niche, api_key, num_topics, words, raw_topics, topics, idx,
                   entry, inflight, issued, returned, shown, helperVars>>

\* line 87-89: the run guard, and the empty output dict
Guard ==
    /\ pc = "guard"
    /\ IF run_btn /\ niche # <<>> /\ api_key # <<>>
       THEN /\ \E now \in Clock :
                 output' = [niche |-> niche, generated_at |-> now, topics |-> <<>>]
            /\ pc' = "topics_issue"
       ELSE /\ pc' = "end"
            /\ UNCHANGED output
    /\ UNCHANGED <<run_btn, niche, api_key, num_topics, words, raw_topics, topics, idx,
                   entry, inflight, issued, returned, shown, helperVars>>

\* requests.post is entered: one request leaves
Post(kind, at, next) ==
    /\ pc = at
    /\ inflight' = Request(kind, idx)
    /\ issued' = Append(issued, Request(kind, idx))
    /\ pc' = next

Record(resp, result) ==
    returned' = Append(returned, [kind |-> inflight.kind, t |-> inflight.t, resp |-> resp,
                                  ok |-> result.ok, val |-> result.val])

\* line 92: the topic-list request is posted
IssueTopics ==
    /\ Post("topics", "topics_issue", "topics_wait")
    /\ UNCHANGED <<run_btn, niche, api_key, num_topics, words, raw_topics, topics, idx,
                   entry, output, returned, shown, helperVars>>

\* lines 92-94: the topic-list call returns, or raises out of the script
CompleteTopics ==
    /\ pc = "topics_wait"
    /\ \E resp \in Responses(RawSamples) :
         LET result == call_openrouter(resp)
         IN  /\ Record(resp, result)
             /\ IF result.ok
                THEN /\ raw_topics' = result.val
                     /\ topics' = truncate_topics(parse_topics(result.val), num_topics)
                     /\ pc' = "loop"
                ELSE /\ pc' = "crashed"
                     /\ UNCHANGED <<raw_topics, topics>>
    /\ inflight' = NoRequest
    /\ UNCHANGED <<run_btn, niche, api_key, num_topics, words, idx, entry, output,
                   issued, shown, helperVars>>

\* lines 97-98: the for loop takes the next topic, or ends
LoopHead ==
    /\ pc = "loop"
    /\ IF idx < Len(topics)
       THEN /\ idx' = idx + 1
            /\ entry' = [f \in {"topic"} |-> topics[idx + 1]]
            /\ pc' = "script_issue"
       ELSE /\ pc' = "display"
            /\ UNCHANGED <<idx, entry>>
    /\ UNCHANGED <<run_btn, niche, api_key, num_topics, words, raw_topics, topics,
                   output, inflight, issued, returned, shown, helperVars>>

IssueField(kind, at, next) ==
    /\ Post(kind, at, next)
    /\ UNCHANGED <<run_btn, niche, api_key, num_topics, words, raw_topics, topics, idx,
                   entry, output, returned, shown, helperVars>>

\* the field without the trim of line 101
field_value_notrim(kind, result) ==
    IF result.ok THEN result.val ELSE error_text(result.val)

\* a try/except around one call: the field gets the text, or the placeholder
field_value(kind, result) ==
    IF result.ok
    THEN (IF kind = "script" THEN approx_trim(result.val, words) ELSE result.val)
    ELSE error_text(result.val)

CompleteField(kind, at, next, contents) ==
    /\ pc = at
    /\ \E resp \in Responses(contents) :
         LET result == call_openrouter(resp)
         IN  /\ Record(resp, result)
             /\ entry' = entry @@ (kind :> field_value(kind, result))
    /\ inflight' = NoRequest
    /\ pc' = next
    /\ UNCHANGED <<run_btn, niche, api_key, num_topics, words, raw_topics, topics, idx,
                   output, issued, shown, helperVars>>

\* lines 99-103
IssueScript == IssueField("script", "script_issue", "script_wait")

CompleteScript == CompleteField("script", "script_wait", "seo_issue", ScriptSamples(words))

\* the SEO and thumbnail requests posted together
IssueSeo_parallel ==
    /\ pc = "seo_issue"
    /\ inflight' = Request("thumbnails", idx)
    /\ issued' = issued \o <<Request("seo", idx), Request("thumbnails", idx)>>
    /\ pc' = "seo_wait"
    /\ UNCHANGED <<run_btn, niche, api_key, num_topics, words, raw_topics, topics, idx,
                   entry, output, returned, shown, helperVars>>

\* lines 105-108
IssueSeo == IssueField("seo", "seo_issue", "seo_wait")

CompleteSeo == CompleteField("seo", "seo_wait", "thumb_issue", SeoSamples)

\* lines 110-113
IssueThumbnails == IssueField("thumbnails", "thumb_issue", "thumb_wait")

CompleteThumbnails == CompleteField("thumbnails", "thumb_wait", "append", ThumbSamples)

\* line 115
AppendEntry ==
    /\ pc = "append"
    /\ output' = [output EXCEPT !.topics = Append(@, entry)]
    /\ pc' = "loop"
    /\ UNCHANGED <<run_btn, niche, api_key, num_topics, words, raw_topics, topics, idx,
                   entry, inflight, issued, returned, shown, helperVars>>

\* line 139: one topic's section of the Markdown document
markdown_of(t) ==
    <<"#", SP>> \o t["topic"] \o <<NL, NL, "## Script", NL>> \o t["script"]
        \o <<NL, NL, "## SEO", NL>> \o t["seo"]
        \o <<NL, NL, "## Thumbnails", NL>> \o t["thumbnails"]

\* lines 118-142: the success banner, the expanders and the two download buttons
Display ==
    /\ pc = "display"
    /\ shown' = [rendered |-> TRUE,
                 expanders |-> output.topics,
                 json |-> output,
                 json_file |-> slugify(niche) \o <<"_output.json">>,
                 markdown |-> Join([i \in 1..Len(output.topics) |->
                                       markdown_of(output.topics[i])], <<NL, NL>>),
                 markdown_file |-> slugify(niche) \o <<"_output.md">>]
    /\ pc' = "end"
    /\ UNCHANGED <<run_btn, niche, api_key, num_topics, words, raw_topics, topics, idx,
                   entry, output, inflight, issued, returned, helperVars>>

Next ==
    \/ Guard
    \/ IssueTopics
    \/ CompleteTopics
    \/ LoopHead
    \/ IssueScript
    \/ CompleteScript
    \/ IssueSeo
    \/ CompleteSeo
    \/ IssueThumbnails
    \/ CompleteThumbnails
    \/ AppendEntry
    \/ Display

Spec == Init /\ [][Next]_vars

(***************************************************************************)
(* Evaluations of one helper on one input.                                 *)
(***************************************************************************)
RunIdle ==
    /\ run_btn = FALSE
    /\ niche = <<>>
    /\ api_key = <<>>
    /\ num_topics = 1
    /\ words = 1
    /\ raw_topics = <<>>
    /\ topics = <<>>
    /\ idx = 0
    /\ entry = Unbound
    /\ output = Unbound
    /\ inflight = NoRequest
    /\ issued = <<>>
    /\ returned = <<>>
    /\ shown = NotShown

TrimAlphabet == {"a", "b", SP, NL}
SlugAlphabet == {"a", "A", "7", HY, SP, "I*"}
ParseAlphabet == {"1", DOT, "a", SP, NL}

\* "1. Foo\n2. Bar\n\n3. Baz"
ExampleList ==
    <<"1", DOT, SP, "F", "o", "o", NL, "2", DOT, SP, "B", "a", "r", NL, NL,
      "3", DOT, SP, "B", "a", "z">>

\* approx_trim(arg, argn), lines 50-52
InitTrim ==
    /\ pc = "in"
    /\ arg \in TextsOver(TrimAlphabet, MaxLen)
    /\ argn \in 0..(MaxWords + 1)
    /\ res = <<>>
    /\ RunIdle

EvalTrim ==
    /\ pc = "in"
    /\ res' = approx_trim(arg, argn)
    /\ pc' = "out"
    /\ UNCHANGED <<arg, argn, runVars>>

SpecTrim == InitTrim /\ [][EvalTrim]_vars

\* slugify(arg), lines 46-47
InitSlug ==
    /\ pc = "in"
    /\ arg \in TextsOver(SlugAlphabet, MaxLen)
    /\ argn = 0
    /\ res = <<>>
    /\ RunIdle

EvalSlug ==
    /\ pc = "in"
    /\ res' = slugify(arg)
    /\ pc' = "out"
    /\ UNCHANGED <<arg, argn, runVars>>

SpecSlug == InitSlug /\ [][EvalSlug]_vars

\* the comprehension of line 93 on arg, a text call_openrouter returned (line 43 strips it)
InitParse ==
    /\ pc = "in"
    /\ arg \in {t \in TextsOver(ParseAlphabet, MaxLen) : Strip(t) = t} \cup {ExampleList}
    /\ argn = 0
    /\ res = <<>>
    /\ RunIdle

EvalParse ==
    /\ pc = "in"
    /\ res' = parse_topics(arg)
    /\ pc' = "out"
    /\ UNCHANGED <<arg, argn, runVars>>

SpecParse == InitParse /\ [][EvalParse]_vars

(***************************************************************************)
(* Vocabulary of the properties.                                           *)
(***************************************************************************)
GuardPasses == run_btn /\ niche # <<>> /\ api_key # <<>>

\* the TopicRecords appended so far
Records == IF output = Unbound THEN <<>> ELSE output.topics

\* the record the calls of topic t wrote to: appended, or still being filled
RecordOf(t) == IF t <= Len(Records) THEN Records[t] ELSE entry

FieldKinds == {"script", "seo", "thumbnails"}

FieldCalls == {k \in 1..Len(returned) : returned[k].kind \in FieldKinds}

IsPrefix(p, s) == Len(p) <= Len(s) /\ SubSeq(s, 1, Len(p)) = p

IsBlank(l) == \A i \in 1..Len(l) : IsSpace(l[i])

NonBlankLines(raw) == SelectSeq(SplitLines(raw), LAMBDA l : ~IsBlank(l))

Min(a, b) == IF a < b THEN a ELSE b

RunOver == pc \in {"display", "end"} /\ output # Unbound

\* no whitespace but single spaces between words
SingleSpaced(s) ==
    /\ \A i \in 1..Len(s) : IsSpace(s[i]) => s[i] = SP
    /\ \A i \in 1..(Len(s) - 1) : ~(s[i] = SP /\ s[i + 1] = SP)
    /\ s # <<>> => s[1] # SP /\ s[Len(s)] # SP

(***************************************************************************)
(* C1. A failing per-topic call puts a string beginning with "[Error:" in  *)
(* its own field only: every field of every record holds what its own call *)
(* returned (the script trimmed) or the placeholder of its own failure;    *)
(* all three calls of every appended record were made, whatever failed;    *)
(* and a finished run has a record for every topic.                        *)
(***************************************************************************)
C1_FailureContained ==
    /\ \A k \in FieldCalls :
         LET r == returned[k]
             rec == RecordOf(r.t)
         IN  /\ r.kind \in DOMAIN rec
             /\ ~r.ok => IsPrefix(ErrPrefix, rec[r.kind])
             /\ r.ok => rec[r.kind] =
                            IF r.kind = "script" THEN approx_trim(r.val, words) ELSE r.val
    /\ \A t \in 1..Len(Records) : \A kind \in FieldKinds :
         \E k \in FieldCalls : returned[k].kind = kind /\ returned[k].t = t
    /\ RunOver => Len(Records) = Len(topics)

\* the script call of topic 2 got a non-200 status; its SEO and thumbnail calls
\* and all calls of topic 1 succeeded; the run finished with both records
C1_Witness ==
    /\ pc = "end"
    /\ Len(Records) = 2
    /\ \E k \in FieldCalls :
         /\ returned[k].kind = "script" /\ returned[k].t = 2
         /\ returned[k].resp.status # HTTP_OK
    /\ \A k \in FieldCalls :
         returned[k].ok <=> ~(returned[k].kind = "script" /\ returned[k].t = 2)
    /\ IsPrefix(ErrPrefix, Records[2]["script"])
    /\ ~IsPrefix(ErrPrefix, Records[2]["seo"])

(***************************************************************************)
(* C2. No failure of a completion call, the topic-list call included,      *)
(* propagates out of the run: the run never ends by an exception.          *)
(***************************************************************************)
C2_NoFailurePropagates ==
    (\E k \in 1..Len(returned) : ~returned[k].ok) => pc # "crashed"

(***************************************************************************)
(* C3. approx_trim(text, n) is the first n whitespace-delimited tokens of  *)
(* text joined by single spaces when text has more than n tokens, and text *)
(* itself, whitespace included, otherwise.                                 *)
(***************************************************************************)
C3_Trim ==
    pc = "out" =>
        LET ws == Split(arg)
        IN  IF Len(ws) > argn
            THEN /\ Split(res) = SubSeq(ws, 1, argn)
                 /\ SingleSpaced(res)
            ELSE res = arg

\* a text of three tokens with a line break in it, trimmed to two
C3_Witness ==
    /\ pc = "out"
    /\ argn = 2
    /\ Len(Split(arg)) = 3
    /\ \E i \in 1..Len(arg) : arg[i] = NL
    /\ Len(Split(res)) = 2

(***************************************************************************)
(* C4. slugify's result holds only hyphens and lowercase alphanumerics,    *)
(* neither starts nor ends with a hyphen, is the lowercased text between   *)
(* its first and last alphanumeric with each other character replaced by   *)
(* one hyphen (runs are kept), and is empty exactly when the text has no   *)
(* alphanumeric character.                                                 *)
(***************************************************************************)
C4_Slug ==
    pc = "out" =>
        LET low == Lower(arg)
            alnum == {i \in 1..Len(low) : IsAlnum(low[i])}
        IN  /\ \A i \in 1..Len(res) : res[i] = HY \/ (IsAlnum(res[i]) /\ ~IsUpper(res[i]))
            /\ res # <<>> => res[1] # HY /\ res[Len(res)] # HY
            /\ (res = <<>>) <=> ~(\E i \in 1..Len(arg) : IsAlnum(arg[i]))
            /\ alnum # {} =>
                 LET first == CHOOSE i \in alnum : \A j \in alnum : i <= j
                     last == CHOOSE i \in alnum : \A j \in alnum : j <= i
                 IN  /\ Len(res) = last - first + 1
                     /\ \A k \in 1..Len(res) :
                          res[k] = IF IsAlnum(low[first + k - 1])
                                   THEN low[first + k - 1] ELSE HY

\* an uppercase letter, a leading character that is stripped, and a run of two
\* non-alphanumerics that stays two hyphens
C4_Witness ==
    /\ pc = "out"
    /\ \E i \in 1..Len(arg) : IsUpper(arg[i])
    /\ arg # <<>> /\ ~IsAlnum(arg[1])
    /\ \E i \in 1..(Len(res) - 1) : res[i] = HY /\ res[i + 1] = HY
    /\ \E i \in 1..Len(arg) : arg[i] = SP

(***************************************************************************)
(* C5. The parsed topics are one entry per non-blank line, in order; a     *)
(* line that starts with a digit gives the text after its leading "N."     *)
(* prefix, stripped (a line with no such prefix keeps its text); any other *)
(* line is kept verbatim; "1. Foo\n2. Bar\n\n3. Baz" gives Foo, Bar, Baz.  *)
(***************************************************************************)
HasNumPrefix(l) ==
    \E k \in 1..(Len(l) - 1) : (\A j \in 1..k : IsDigit(l[j])) /\ l[k + 1] = DOT

AfterNumPrefix(l) ==
    LET k == CHOOSE k \in 1..(Len(l) - 1) : (\A j \in 1..k : IsDigit(l[j])) /\ l[k + 1] = DOT
    IN  SubSeq(l, k + 2, Len(l))

ClaimedTopic(l, topic) ==
    IF IsDigit(l[1])
    THEN (IF HasNumPrefix(l) THEN topic = Strip(AfterNumPrefix(l)) ELSE topic \in {l, Strip(l)})
    ELSE topic = l

C5_ParsedAsClaimed ==
    pc = "out" =>
        LET ls == NonBlankLines(arg)
        IN  /\ Len(res) = Len(ls)
            /\ \A i \in 1..Len(ls) : ClaimedTopic(ls[i], res[i])
            /\ arg = ExampleList =>
                 res = <<<<"F", "o", "o">>, <<"B", "a", "r">>, <<"B", "a", "z">>>>

(***************************************************************************)
(* C6. The result never holds more TopicRecords than the requested count;  *)
(* when the loop is over it holds min(requested count, non-blank lines of  *)
(* the topic list) of them, in the order of the parsed topics.             *)
(***************************************************************************)
C6_RecordCount ==
    /\ Len(Records) <= num_topics
    /\ RunOver =>
         /\ Len(Records) = Min(num_topics, Len(NonBlankLines(raw_topics)))
         /\ \A i \in 1..Len(Records) :
              Records[i]["topic"] = parse_topics(raw_topics)[i]

\* two topics requested, one line returned: the run finishes with one record
C6_Witness ==
    /\ pc = "end"
    /\ shown # NotShown
    /\ num_topics = 2
    /\ Len(NonBlankLines(raw_topics)) = 1
    /\ Len(Records) = 1

(***************************************************************************)
(* C7. A script whose call succeeded is stored as the first wordTarget     *)
(* words of the returned text, so it has at most wordTarget words, and as  *)
(* the returned text itself when that has no more words than the target;   *)
(* a run whose topic list has exactly topicCount lines and whose per-topic *)
(* calls all succeed ends with exactly topicCount records.                 *)
(***************************************************************************)
C7_ScriptWithinTarget ==
    /\ \A k \in FieldCalls :
         LET r == returned[k]
             script == RecordOf(r.t)["script"]
         IN  (r.kind = "script" /\ r.ok) =>
                 /\ Len(Split(script)) <= words
                 /\ Split(script) = Take(Split(r.val), words)
                 /\ Len(Split(r.val)) <= words => script = r.val
                 /\ Len(Split(r.val)) > words => SingleSpaced(script)
    /\ ( /\ pc = "end" /\ shown # NotShown
         /\ Len(NonBlankLines(raw_topics)) = num_topics
         /\ \A k \in FieldCalls : returned[k].ok )
       => /\ Len(Records) = num_topics
          /\ \A t \in 1..Len(Records) : Len(Split(Records[t]["script"])) <= words

\* two topics, every call succeeded; one script came back a word too long and
\* was cut, the other came back with two spaces between its words and was kept
C7_Witness ==
    /\ pc = "end" /\ shown # NotShown
    /\ num_topics = 2 /\ Len(Records) = 2 /\ words = 2
    /\ \A k \in FieldCalls : returned[k].ok
    /\ \E k \in FieldCalls :
         /\ returned[k].kind = "script" /\ returned[k].t = 1
         /\ Len(Split(returned[k].val)) = 3
         /\ Len(Split(Records[1]["script"])) = 2
    /\ Records[2]["script"] = <<"a", SP, SP, "b">>

(***************************************************************************)
(* C8. Every call posts exactly one request and never another; it returns  *)
(* the stripped text of the first completion exactly when the status is    *)
(* 200 and the fields are there, and fails otherwise; a finished run has   *)
(* posted 1 + 3 * (number of topics processed) requests.                   *)
(***************************************************************************)
C8_OneRequestPerCall ==
    /\ Len(issued) = Len(returned) + (IF inflight = NoRequest THEN 0 ELSE 1)
    /\ \A k \in 1..Len(returned) :
         LET r == returned[k]
         IN  /\ issued[k] = Request(r.kind, r.t)
             /\ r.ok <=> (r.resp.status = HTTP_OK /\ r.resp.wellformed)
             /\ r.ok => r.val = Strip(r.resp.content)
    /\ RunOver => Len(issued) = 1 + 3 * Len(Records)

\* a finished run of two topics, one call answered 500 and one answered
\* without the expected fields: seven requests
C8_Witness ==
    /\ pc = "end" /\ shown # NotShown
    /\ Len(Records) = 2
    /\ Len(issued) = 7
    /\ \E k \in FieldCalls : returned[k].resp.status # HTTP_OK
    /\ \E k \in FieldCalls : ~returned[k].resp.wellformed

(***************************************************************************)
(* C9. Requests leave one at a time, each after the previous call has      *)
(* completed: first the topic-list request, then for topic 1, 2, ... the   *)
(* script, SEO and thumbnail requests in that order, and none for a topic  *)
(* before the record of the topic before it has been appended.             *)
(***************************************************************************)
FieldOrder == <<"script", "seo", "thumbnails">>

C9_Sequential ==
    /\ Len(returned) <= Len(issued) /\ Len(issued) <= Len(returned) + 1
    /\ (inflight # NoRequest) <=> (Len(issued) = Len(returned) + 1)
    /\ inflight # NoRequest => inflight = issued[Len(issued)]
    /\ \A k \in 1..Len(issued) :
         IF k = 1 THEN issued[k] = Request("topics", 0)
         ELSE /\ issued[k].kind = FieldOrder[((k - 2) % 3) + 1]
              /\ issued[k].t = ((k - 2) \div 3) + 1
              /\ Len(Records) >= issued[k].t - 1
              /\ returned[1].ok

\* the SEO request of topic 2 is in flight, after the script call of topic 2
\* failed and the record of topic 1 was appended
C9_Witness ==
    /\ pc = "seo_wait"
    /\ inflight = Request("seo", 2)
    /\ Len(Records) = 1
    /\ Len(returned) = 5
    /\ ~returned[5].ok

(***************************************************************************)
(* C10. Without the trigger, the niche or the credential, no request is    *)
(* posted, no result is built and nothing is rendered; results and         *)
(* downloads are rendered only by a run that has a record for every topic. *)
(***************************************************************************)
C10_Suppressed ==
    /\ ~GuardPasses =>
         /\ issued = <<>> /\ returned = <<>>
         /\ output = Unbound
         /\ shown = NotShown
         /\ pc \in {"guard", "end"}
    /\ shown # NotShown =>
         /\ GuardPasses
         /\ pc = "end"
         /\ idx = Len(topics) /\ Len(Records) = Len(topics)
         /\ shown.expanders = Records /\ shown.json = output

\* the trigger pressed and a niche given, but no credential: the script has ended
C10_Witness ==
    /\ pc = "end"
    /\ run_btn /\ niche # <<>> /\ api_key = <<>>
    /\ issued = <<>> /\ shown = NotShown

====
